---- MODULE Spec2Model ----
(***************************************************************************)
(* Model of split_verses.py: time parsing, header detection, grid cuts,    *)
(* the CSV and Excel timestamp loaders, and the naming of the output       *)
(* directories and files in sheet mode.                                    *)
(*                                                                         *)
(* Conventions.  A Python str is a sequence of one-character strings       *)
(* (<<"3", ".", "5">> is "3.5").  A Python list index is 0-based; the      *)
(* model's indices are 1-based and NoIdx (0) stands for None.  A function  *)
(* that may raise returns a record [ok |-> BOOLEAN, ...]; ok = FALSE is    *)
(* the raised exception.                                                   *)
(***************************************************************************)
EXTENDS Integers, Sequences, FiniteSets, TLC

VARIABLES
    \* one call of parse_time or parse_excel_time
    t_value,      \* the argument
    t_fn,         \* the function called
    t_res,        \* what it returned or that it raised
    t_pc,
    \* grid_cuts
    g_start, g_count, g_length, g_total,   \* the arguments
    g_i,          \* the loop variable i
    g_cuts,       \* the list cuts
    g_pc,
    \* header detection of the two loaders
    h_row,        \* the first row of the table or sheet
    h_csv,        \* idx_start, idx_end, idx_dur of load_timestamps_csv
    h_xl,         \* idx_label, idx_begin, idx_end of load_timestamps_excel
    h_pc,
    \* load_timestamps_csv
    c_rows, c_total,   \* the rows read from the file, and total_ms
    c_idx,        \* start_row and the resolved columns
    c_r,          \* position of the loop over rows[start_row:]
    c_loc,        \* the locals of the last row processed
    c_cuts,       \* the list cuts
    c_pc,
    \* load_timestamps_excel
    x_wb, x_total,     \* the worksheets of the workbook, and total_ms
    x_s,          \* position of the loop over wb.worksheets
    x_chapters,   \* the dict chapters, in insertion order
    x_pc,
    \* main, sheet mode
    m_chapters,   \* the loaded chapters
    m_fs,         \* paths that exist below the output directory
    m_used,       \* the dict used_dirnames
    m_c,          \* position of the loop over chapters.items()
    m_k,          \* position of the loop over the chapter's segments
    m_dirs,       \* dirname of each chapter visited so far
    m_exports,    \* the list export_paths
    m_pc

tvars == <<t_value, t_fn, t_res, t_pc>>

gvars == <<g_start, g_count, g_length, g_total, g_i, g_cuts, g_pc>>

hvars == <<h_row, h_csv, h_xl, h_pc>>

cvars == <<c_rows, c_total, c_idx, c_r, c_loc, c_cuts, c_pc>>

xvars == <<x_wb, x_total, x_s, x_chapters, x_pc>>

mvars == <<m_chapters, m_fs, m_used, m_c, m_k, m_dirs, m_exports, m_pc>>

vars == <<tvars, gvars, hvars, cvars, xvars, mvars>>

NoIdx == 0

-----------------------------------------------------------------------------
(* Characters and strings *)

DigitChars == <<"0", "1", "2", "3", "4", "5", "6", "7", "8", "9">>

UpperChars == <<"A", "B", "C", "D", "E", "F", "G", "H", "I", "J", "K", "L", "M",
                "N", "O", "P", "Q", "R", "S", "T", "U", "V", "W", "X", "Y", "Z">>

LowerChars == <<"a", "b", "c", "d", "e", "f", "g", "h", "i", "j", "k", "l", "m",
                "n", "o", "p", "q", "r", "s", "t", "u", "v", "w", "x", "y", "z">>

SeqRange(s) == {s[i] : i \in 1..Len(s)}

IsDigit(c) == c \in SeqRange(DigitChars)

IsAlpha(c) == c \in SeqRange(UpperChars) \cup SeqRange(LowerChars)

IsAlnum(c) == IsAlpha(c) \/ IsDigit(c)

IsSpace(c) == c \in {" ", "\t"}

ToLower(c) ==
    IF c \in SeqRange(UpperChars)
    THEN LowerChars[CHOOSE i \in 1..Len(UpperChars) : UpperChars[i] = c]
    ELSE c

DigitVal(c) == (CHOOSE i \in 1..Len(DigitChars) : DigitChars[i] = c) - 1

\* The element of a one-element set.  A name bound to the element of a set is
\* bound to a value, where a LET name or an argument is an expression that
\* is computed again wherever it is used.
TheOne(S) == CHOOSE x \in S : TRUE

Max(a, b) == IF a >= b THEN a ELSE b

Min(a, b) == IF a <= b THEN a ELSE b

\* s.strip()
Strip(s) ==
    LET keep == {i \in 1..Len(s) : ~IsSpace(s[i])}
    IN  IF keep = {} THEN <<>>
        ELSE SubSeq(s, CHOOSE i \in keep : \A j \in keep : i <= j,
                       CHOOSE i \in keep : \A j \in keep : i >= j)

Contains(s, c) == \E i \in 1..Len(s) : s[i] = c

FirstPos(s, c) == CHOOSE i \in 1..Len(s) : s[i] = c /\ \A j \in 1..(i - 1) : s[j] # c

\* s.split(c)
RECURSIVE Split(_, _)
Split(s, c) ==
    IF ~Contains(s, c) THEN <<s>>
    ELSE <<SubSeq(s, 1, FirstPos(s, c) - 1)>> \o Split(SubSeq(s, FirstPos(s, c) + 1, Len(s)), c)

\* s.split(c, 1), for s containing c
Split1(s, c) == <<SubSeq(s, 1, FirstPos(s, c) - 1), SubSeq(s, FirstPos(s, c) + 1, Len(s))>>

StartsWith(s, p) == Len(p) <= Len(s) /\ SubSeq(s, 1, Len(p)) = p

IsDigits(s) == \A i \in 1..Len(s) : IsDigit(s[i])

RECURSIVE DigitsVal(_)
DigitsVal(s) ==
    IF s = <<>> THEN 0
    ELSE DigitsVal(SubSeq(s, 1, Len(s) - 1)) * 10 + DigitVal(s[Len(s)])

\* str(n) for an integer n >= 0
RECURSIVE IntToStr(_)
IntToStr(n) ==
    IF n < 10 THEN <<DigitChars[n + 1]>>
    ELSE IntToStr(n \div 10) \o <<DigitChars[(n % 10) + 1]>>

-----------------------------------------------------------------------------
(* int(), float() and parse_time *)

Raised == [ok |-> FALSE, ms |-> 0]

Value(n) == [ok |-> TRUE, ms |-> n]

Unsigned(s) == IF s # <<>> /\ s[1] \in {"+", "-"} THEN Tail(s) ELSE s

SignOf(s) == IF s # <<>> /\ s[1] = "-" THEN -1 ELSE 1

\* int(s) for the strings of the modelled alphabet: surrounding whitespace,
\* an optional sign, one or more digits.  [ok, ms]: ms holds the integer.
PyInt(s) ==
    LET body == Unsigned(Strip(s))
    IN  IF body # <<>> /\ IsDigits(body)
        THEN Value(SignOf(Strip(s)) * DigitsVal(body))
        ELSE Raised

\* The milliseconds of a digit string read as a decimal fraction, rounded to
\* the nearest millisecond: int(round(float("0." + fp) * 1000)).
FracMs(fp) ==
    LET padded == SubSeq(fp \o <<"0", "0", "0">>, 1, 3)
        rest   == SubSeq(fp, 4, Len(fp))
        up     == /\ rest # <<>>
                  /\ \/ DigitVal(rest[1]) > 5
                     \/ DigitVal(rest[1]) = 5 /\ \E i \in 2..Len(rest) : rest[i] # "0"
    IN  DigitsVal(padded) + (IF up THEN 1 ELSE 0)

\* int(round(float(s) * 1000)) for the strings of the modelled alphabet:
\* surrounding whitespace, an optional sign, digits with at most one dot and
\* at least one digit.
PyFloatMs(s) ==
    LET body == Unsigned(Strip(s))
        ip   == IF Contains(body, ".") THEN Split1(body, ".")[1] ELSE body
        fp   == IF Contains(body, ".") THEN Split1(body, ".")[2] ELSE <<>>
    IN  IF IsDigits(ip) /\ IsDigits(fp) /\ (ip # <<>> \/ fp # <<>>)
        THEN Value(SignOf(Strip(s)) * (DigitsVal(ip) * 1000 + FracMs(fp)))
        ELSE Raised

\* A decimal whose fourth fractional digit is an exact half: the binary
\* float decides the rounding, so such strings are left out of the inputs.
RoundingTie(s) ==
    \E i \in 1..Len(s) :
        /\ s[i] = "."
        /\ i + 4 <= Len(s)
        /\ \A j \in (i + 1)..(i + 3) : IsDigit(s[j])
        /\ s[i + 4] = "5"
        /\ \A j \in (i + 5)..Len(s) :
               (\A k \in (i + 5)..j : IsDigit(s[k])) => s[j] = "0"

\* Python integers are unbounded and TLC's are 32 bits wide: the inputs keep
\* every digit run to four digits and an hours field to two, so that no
\* millisecond value leaves the 32-bit range.
InModelRange(s) ==
    /\ \A i \in 1..(Len(s) - 4) : \E j \in i..(i + 4) : ~IsDigit(s[j])
    /\ Len(Split(s, ":")) >= 3 => Len(Split(s, ":")[1]) <= 2

\* A parser that reads the last three fields of a longer string.
parse_time_last_three(s0) ==
    LET s     == Strip(s0)
        parts == Split(s, ":")
        n     == Len(parts)
    IN  IF ~Contains(s, ":") THEN PyFloatMs(s)
        ELSE IF n = 2
        THEN LET mm == PyInt(parts[1])
                 ss == PyFloatMs(parts[2])
             IN  IF mm.ok /\ ss.ok THEN Value(mm.ms * 60 * 1000 + ss.ms) ELSE Raised
        ELSE LET hh == PyInt(parts[n - 2])
                 mm == PyInt(parts[n - 1])
                 ss == PyFloatMs(parts[n])
             IN  IF hh.ok /\ mm.ok /\ ss.ok
                 THEN Value(hh.ms * 3600 * 1000 + mm.ms * 60 * 1000 + ss.ms)
                 ELSE Raised

parse_time(s0) ==
    LET s     == Strip(s0)
        parts == Split(s, ":")
    IN  IF ~Contains(s, ":") THEN PyFloatMs(s)
        ELSE IF Len(parts) = 2
        THEN LET mm == PyInt(parts[1])
                 ss == PyFloatMs(parts[2])
             IN  IF mm.ok /\ ss.ok THEN Value(mm.ms * 60 * 1000 + ss.ms) ELSE Raised
        ELSE IF Len(parts) = 3
        THEN LET hh == PyInt(parts[1])
                 mm == PyInt(parts[2])
                 ss == PyFloatMs(parts[3])
             IN  IF hh.ok /\ mm.ok /\ ss.ok
                 THEN Value(hh.ms * 3600 * 1000 + mm.ms * 60 * 1000 + ss.ms)
                 ELSE Raised
        ELSE Raised

-----------------------------------------------------------------------------
(* parse_excel_time *)

\* A spreadsheet cell as openpyxl hands it over: None, a timedelta, a time,
\* a datetime (its date is not read), or anything else, which the code reads
\* through str(value).  Native durations and times are whole milliseconds.
NoneCell == [kind |-> "none"]

TextCell(s) == [kind |-> "text", text |-> s]

DeltaCell(n) == [kind |-> "timedelta", ms |-> n]

TimeCell(k, h, m, s, f) == [kind |-> k, hour |-> h, minute |-> m, second |-> s, ms |-> f]

KeepDigits(s) == SelectSeq(s, IsDigit)

\* A single digit read as units of seconds.
dot_seconds_unscaled(seconds_digits) ==
    IF seconds_digits = <<>> THEN 0
    ELSE IF Len(seconds_digits) = 1 THEN DigitVal(seconds_digits[1])
    ELSE DigitsVal(SubSeq(seconds_digits, 1, 2))

\* seconds of lines 108-113, before the clamp of line 114
dot_seconds(seconds_digits) ==
    IF seconds_digits = <<>> THEN 0
    ELSE IF Len(seconds_digits) = 1 THEN DigitVal(seconds_digits[1]) * 10
    ELSE DigitsVal(SubSeq(seconds_digits, 1, 2))

\* The nested helper of parse_excel_time: [ok, q, r] is the returned pair.
minutes_seconds_from_string(text0) ==
    LET text == Strip(text0)
        fail == [ok |-> FALSE, q |-> 0, r |-> 0]
    IN  IF text = <<>> THEN fail
        ELSE IF Contains(text, ":")
        THEN LET t == parse_time(text)
             IN  IF t.ok THEN [ok |-> TRUE, q |-> t.ms \div 1000, r |-> t.ms % 1000] ELSE fail
        ELSE IF Contains(text, ".")
        THEN LET minutes_str == Split1(text, ".")[1]
                 seconds_str == Split1(text, ".")[2]
                 minutes     == IF minutes_str # <<>> THEN PyInt(minutes_str) ELSE Value(0)
                 seconds     == Max(0, Min(dot_seconds(KeepDigits(seconds_str)), 59))
             IN  IF minutes.ok
                 THEN [ok |-> TRUE, q |-> minutes.ms * 60 + seconds, r |-> 0]
                 ELSE fail
        ELSE LET minutes_float == PyFloatMs(text)
             IN  IF minutes_float.ok
                 THEN [ok |-> TRUE, q |-> (minutes_float.ms * 60) \div 1000, r |-> 0]
                 ELSE fail

parse_excel_time(value) ==
    IF value.kind = "none" THEN Raised
    ELSE IF value.kind = "timedelta" THEN Value(value.ms)
    ELSE IF value.kind \in {"time", "datetime"}
    THEN Value((value.hour * 3600 + value.minute * 60 + value.second) * 1000 + value.ms)
    ELSE LET text_value == Strip(value.text)
             qr         == minutes_seconds_from_string(text_value)
         IN  IF text_value = <<>> THEN Raised
             ELSE IF ~qr.ok THEN Raised
             ELSE Value(qr.q * 1000 + qr.r)

-----------------------------------------------------------------------------
(* Each specification below runs one operation of the program; the          *)
(* variables of the operations it does not run stay idle.                   *)

IdleTime == t_value = NoneCell /\ t_fn = "none" /\ t_res = [ok |-> FALSE, ms |-> -1] /\ t_pc = "idle"

IdleGrid ==
    /\ g_start = 0 /\ g_count = 0 /\ g_length = 0 /\ g_total = 0
    /\ g_i = 0 /\ g_cuts = <<>> /\ g_pc = "idle"

IdleHeader == h_row = <<>> /\ h_csv = <<>> /\ h_xl = <<>> /\ h_pc = "idle"

IdleCsv ==
    /\ c_rows = <<>> /\ c_total = 0 /\ c_idx = <<>> /\ c_r = 0
    /\ c_loc = [kind |-> "none"] /\ c_cuts = <<>> /\ c_pc = "idle"

IdleExcel == x_wb = <<>> /\ x_total = 0 /\ x_s = 0 /\ x_chapters = <<>> /\ x_pc = "idle"

IdleMain ==
    /\ m_chapters = <<>> /\ m_fs = {} /\ m_used = <<>> /\ m_c = 0 /\ m_k = 0
    /\ m_dirs = <<>> /\ m_exports = <<>> /\ m_pc = "idle"

-----------------------------------------------------------------------------
(* The time parsers on bounded inputs *)

MaxLen == 5

TimeAlphabet == {"0", "3", "4", "5", "7", ".", ":"}

ExampleTexts ==
    { <<"9", "0">>,
      <<"0", "1", ":", "3", "0">>,
      <<"0", "1", ":", "0", "1", ":", "3", "0">>,
      <<"1", ":", "2", ":", "3", ":", "4">>,
      <<"0", "1", ":", "1", "5", ".", "2", "5", "0">>,
      <<" ", "3", ".", "4", "5", " ">>,
      <<"1", "2", ".", "3", "4", "5", "6">>,
      <<"-", "5">>,
      <<"-", "1", ".", "3", "0">>,
      <<"1", "0", ".", "x", "9">>,
      <<"a", "b", "c">>,
      <<" ">> }

BoundedTexts == UNION {[1..k -> TimeAlphabet] : k \in 0..MaxLen}

TimeTexts == {s \in BoundedTexts \cup ExampleTexts : ~RoundingTie(s) /\ InModelRange(s)}

TimeCells ==
    {TextCell(s) : s \in TimeTexts}
    \cup {NoneCell, DeltaCell(0), DeltaCell(90500), DeltaCell(-1000)}
    \cup {TimeCell("time", 0, 1, 30, 0), TimeCell("time", 1, 1, 30, 250),
          TimeCell("datetime", 0, 3, 45, 0)}

NoResult == [ok |-> FALSE, ms |-> -1]

InitTime ==
    /\ t_value \in TimeCells
    /\ t_fn = "none"
    /\ t_res = NoResult
    /\ t_pc = "call"
    /\ IdleGrid /\ IdleHeader /\ IdleCsv /\ IdleExcel /\ IdleMain

CallParseTime ==
    /\ t_pc = "call"
    /\ t_value.kind = "text"
    /\ t_fn' = "parse_time"
    /\ t_res' = parse_time(t_value.text)
    /\ t_pc' = "done"
    /\ UNCHANGED <<t_value, gvars, hvars, cvars, xvars, mvars>>

CallParseExcelTime ==
    /\ t_pc = "call"
    /\ t_fn' = "parse_excel_time"
    /\ t_res' = parse_excel_time(t_value)
    /\ t_pc' = "done"
    /\ UNCHANGED <<t_value, gvars, hvars, cvars, xvars, mvars>>

NextTime == CallParseTime \/ CallParseExcelTime

SpecTime == InitTime /\ [][NextTime]_vars

-----------------------------------------------------------------------------
(* normalize_header and the header detection of the two loaders *)

normalize_header(cell) == SelectSeq([i \in 1..Len(cell) |-> ToLower(cell[i])], IsAlnum)

Matches(norm, kw) == norm = kw \/ StartsWith(norm, kw)

\* find_column, nested in load_timestamps_csv: the loop over the columns is
\* the outer one, so the first column matching any keyword is returned.
RECURSIVE find_column_from(_, _, _)
find_column_from(header_norm, keywords, idx) ==
    IF idx > Len(header_norm) THEN NoIdx
    ELSE IF \E k \in 1..Len(keywords) : Matches(header_norm[idx], keywords[k]) THEN idx
    ELSE find_column_from(header_norm, keywords, idx + 1)

\* A loop with the keywords outside and the columns inside.
RECURSIVE find_column_by_keyword(_, _)
find_column_by_keyword(header_norm, keywords) ==
    IF keywords = <<>> THEN NoIdx
    ELSE IF \E i \in 1..Len(header_norm) : Matches(header_norm[i], Head(keywords))
    THEN CHOOSE i \in 1..Len(header_norm) :
             /\ Matches(header_norm[i], Head(keywords))
             /\ \A j \in 1..(i - 1) : ~Matches(header_norm[j], Head(keywords))
    ELSE find_column_by_keyword(header_norm, Tail(keywords))

find_column(header_norm, keywords) == find_column_from(header_norm, keywords, 1)

CsvStartKeywords == << <<"s", "t", "a", "r", "t">>, <<"b", "e", "g", "i", "n">> >>

CsvEndKeywords == << <<"e", "n", "d">>, <<"s", "t", "o", "p">>, <<"f", "i", "n", "i", "s", "h">> >>

CsvDurKeywords == << <<"d", "u", "r", "a", "t", "i", "o", "n">>, <<"l", "e", "n", "g", "t", "h">>, <<"d", "u", "r">> >>

row_looks_like_header(row) == \E i \in 1..Len(row) : \E j \in 1..Len(row[i]) : IsAlpha(row[i][j])

\* Lines 238-252 of load_timestamps_csv on rows: start_row (1-based: the
\* index in rows of the first data row) and the three column indices.
csv_header(rows) ==
    LET header_raw  == IF rows # <<>> THEN [i \in 1..Len(rows[1]) |-> Strip(rows[1][i])] ELSE <<>>
        header_norm == [i \in 1..Len(header_raw) |-> normalize_header(header_raw[i])]
    IN  IF header_raw # <<>> /\ row_looks_like_header(header_raw)
        THEN [start_row |-> 2,
              idx_start |-> find_column(header_norm, CsvStartKeywords),
              idx_end   |-> find_column(header_norm, CsvEndKeywords),
              idx_dur   |-> find_column(header_norm, CsvDurKeywords)]
        ELSE [start_row |-> 1, idx_start |-> NoIdx, idx_end |-> NoIdx, idx_dur |-> NoIdx]

ExcelLabelNames == { <<"c", "h", "a", "p", "t", "e", "r", "s", "l", "o", "k", "a">>, <<"v", "e", "r", "s", "e">>, <<"s", "l", "o", "k", "a">>, <<"n", "a", "m", "e">>, <<"l", "a", "b", "e", "l">> }

ExcelBeginNames == { <<"b", "e", "g", "i", "n", "n", "i", "n", "g">>, <<"b", "e", "g", "i", "n">>, <<"s", "t", "a", "r", "t">> }

ExcelEndNames == { <<"e", "n", "d", "i", "n", "g">>, <<"e", "n", "d">>, <<"f", "i", "n", "i", "s", "h">> }

\* str(cell) of a header cell that is not None
CellStr(cell) == cell.text

\* The loop of lines 177-183: each index is set once, at the first column
\* whose normalized header is one of the role's names.
RECURSIVE excel_roles_from(_, _, _)
excel_roles_from(headers, idx, roles) ==
    IF idx > Len(headers) THEN roles
    ELSE TheOne({excel_roles_from(headers, idx + 1, next) : next \in {
            [idx_label |-> IF roles.idx_label = NoIdx /\ headers[idx] \in ExcelLabelNames
                           THEN idx ELSE roles.idx_label,
             idx_begin |-> IF roles.idx_begin = NoIdx /\ headers[idx] \in ExcelBeginNames
                           THEN idx ELSE roles.idx_begin,
             idx_end   |-> IF roles.idx_end = NoIdx /\ headers[idx] \in ExcelEndNames
                           THEN idx ELSE roles.idx_end]}})

\* Lines 173-183 of load_timestamps_excel on the header row of a sheet.
excel_roles(header_row) ==
    TheOne({excel_roles_from(headers, 1, [idx_label |-> NoIdx, idx_begin |-> NoIdx, idx_end |-> NoIdx])
            : headers \in {[i \in 1..Len(header_row) |->
                               IF header_row[i].kind # "none"
                               THEN normalize_header(CellStr(header_row[i])) ELSE <<>>]}})

MaxCols == 2

HeaderCells ==
    { <<"S", "t", "a", "r", "t">>, <<" ", "s", "t", "a", "r", "t", " ", "t", "i", "m", "e">>, <<"B", "e", "g", "i", "n">>, <<"B", "e", "g", "i", "n", "n", "i", "n", "g">>, <<"E", "n", "d">>, <<"E", "n", "d", "i", "n", "g">>,
      <<"S", "t", "o", "p">>, <<"F", "i", "n", "i", "s", "h">>, <<"D", "u", "r", "a", "t", "i", "o", "n">>, <<"L", "e", "n", "g", "t", "h", " ", "(", "s", ")">>, <<"D", "u", "r">>,
      <<"C", "h", "a", "p", "t", "e", "r", " ", "S", "l", "o", "k", "a">>, <<"C", "h", "a", "p", "t", "e", "r", "l", "o", "k", "a">>, <<"V", "e", "r", "s", "e">>, <<"N", "a", "m", "e">>, <<"L", "a", "b", "e", "l">>, <<"S", "l", "o", "k", "a">>,
      <<"S", "e", "n", "d">>, <<"1", "0">>, <<>> }

HeaderRows == UNION {[1..k -> HeaderCells] : k \in 0..MaxCols}

InitHeader ==
    /\ h_row \in HeaderRows
    /\ h_csv = <<>>
    /\ h_xl = <<>>
    /\ h_pc = "both"
    /\ IdleTime /\ IdleGrid /\ IdleCsv /\ IdleExcel /\ IdleMain

\* load_timestamps_csv reads the row as the first row of the file.
HeaderCsv ==
    /\ h_pc \in {"both", "csv"}
    /\ h_csv' = csv_header(<<h_row>>)
    /\ h_pc' = IF h_pc = "both" THEN "excel" ELSE "done"
    /\ UNCHANGED <<h_row, h_xl, tvars, gvars, cvars, xvars, mvars>>

\* load_timestamps_excel reads the row as the header row of a sheet.
HeaderExcel ==
    /\ h_pc \in {"both", "excel"}
    /\ h_xl' = excel_roles([i \in 1..Len(h_row) |-> TextCell(h_row[i])])
    /\ h_pc' = IF h_pc = "both" THEN "csv" ELSE "done"
    /\ UNCHANGED <<h_row, h_csv, tvars, gvars, cvars, xvars, mvars>>

NextHeader == HeaderCsv \/ HeaderExcel

SpecHeader == InitHeader /\ [][NextHeader]_vars

-----------------------------------------------------------------------------
(* grid_cuts *)

\* The lower bound left out.
ClampLow(v, total_ms) == Min(v, total_ms)

\* max(0, min(v, total_ms))
Clamp(v, total_ms) == Max(0, Min(v, total_ms))

\* clamp_segment
clamp_segment(start_ms, end_ms, total_ms) == <<Clamp(start_ms, total_ms), Clamp(end_ms, total_ms)>>

\* st and en of iteration i, after lines 85-88
grid_range(start_ms, length_ms, total_ms, i) ==
    <<Clamp(start_ms + i * length_ms, total_ms),
      Clamp(start_ms + i * length_ms + length_ms, total_ms)>>

MaxCount == 5

GridStarts == {-2000, 0, 500, 3000}

GridLengths == {-1000, 0, 1000, 1500}

GridTotals == {0, 2500}

InitGrid ==
    /\ g_start \in GridStarts
    /\ g_count \in -1..MaxCount
    /\ g_length \in GridLengths
    /\ g_total \in GridTotals
    /\ g_i = 0
    /\ g_cuts = <<>>
    /\ g_pc = "loop"
    /\ IdleTime /\ IdleHeader /\ IdleCsv /\ IdleExcel /\ IdleMain

\* One iteration that appends its range.
GridAppend ==
    /\ g_pc = "loop"
    /\ g_i < g_count
    /\ LET r == grid_range(g_start, g_length, g_total, g_i)
       IN  /\ ~(r[2] <= r[1])
           /\ g_cuts' = Append(g_cuts, r)
    /\ g_i' = g_i + 1
    /\ UNCHANGED <<g_start, g_count, g_length, g_total, g_pc, tvars, hvars, cvars, xvars, mvars>>

\* continue in place of break.
GridSkip ==
    /\ g_pc = "loop"
    /\ g_i < g_count
    /\ LET r == grid_range(g_start, g_length, g_total, g_i)
       IN  r[2] <= r[1]
    /\ g_i' = g_i + 1
    /\ UNCHANGED <<g_start, g_count, g_length, g_total, g_cuts, g_pc, tvars, hvars, cvars, xvars, mvars>>

\* The iteration that finds en <= st and breaks out of the loop.
GridBreak ==
    /\ g_pc = "loop"
    /\ g_i < g_count
    /\ LET r == grid_range(g_start, g_length, g_total, g_i)
       IN  r[2] <= r[1]
    /\ g_pc' = "returned"
    /\ UNCHANGED <<g_start, g_count, g_length, g_total, g_i, g_cuts, tvars, hvars, cvars, xvars, mvars>>

\* range(count) is exhausted.
GridExhausted ==
    /\ g_pc = "loop"
    /\ ~(g_i < g_count)
    /\ g_pc' = "returned"
    /\ UNCHANGED <<g_start, g_count, g_length, g_total, g_i, g_cuts, tvars, hvars, cvars, xvars, mvars>>

NextGrid == GridAppend \/ GridBreak \/ GridExhausted

SpecGrid == InitGrid /\ [][NextGrid]_vars

-----------------------------------------------------------------------------
(* load_timestamps_csv *)

Populated(row) == SelectSeq(row, LAMBDA cell : cell # <<>>)

HasCell(row, idx) == idx # NoIdx /\ idx <= Len(row) /\ row[idx] # <<>>

\* The resolution of start_s, second and use_end for the stripped row, lines
\* 258-275.  positional: the fallback block ran; ok = FALSE: it raised.
resolve_row_dur_first(row, idx) ==
    LET from_header == HasCell(row, idx.idx_start)
                       /\ (HasCell(row, idx.idx_end) \/ HasCell(row, idx.idx_dur))
    IN  IF from_header
        THEN [ok |-> TRUE, positional |-> FALSE, start_s |-> row[idx.idx_start],
              second  |-> IF HasCell(row, idx.idx_dur) THEN row[idx.idx_dur] ELSE row[idx.idx_end],
              use_end |-> ~HasCell(row, idx.idx_dur)]
        ELSE IF Len(Populated(row)) < 2
        THEN [ok |-> FALSE, positional |-> TRUE, start_s |-> <<>>, second |-> <<>>, use_end |-> FALSE]
        ELSE [ok |-> TRUE, positional |-> TRUE, start_s |-> Populated(row)[1],
              second |-> Populated(row)[2], use_end |-> FALSE]

resolve_row(row, idx) ==
    LET from_header == HasCell(row, idx.idx_start)
                       /\ (HasCell(row, idx.idx_end) \/ HasCell(row, idx.idx_dur))
    IN  IF from_header
        THEN [ok |-> TRUE, positional |-> FALSE, start_s |-> row[idx.idx_start],
              second  |-> IF HasCell(row, idx.idx_end) THEN row[idx.idx_end] ELSE row[idx.idx_dur],
              use_end |-> HasCell(row, idx.idx_end)]
        ELSE IF Len(Populated(row)) < 2
        THEN [ok |-> FALSE, positional |-> TRUE, start_s |-> <<>>, second |-> <<>>, use_end |-> FALSE]
        ELSE [ok |-> TRUE, positional |-> TRUE, start_s |-> Populated(row)[1],
              second |-> Populated(row)[2], use_end |-> FALSE]

row_end_absolute(st, second_ms, use_end) == second_ms

\* en as lines 278-282 assign it, before the clamp
row_end(st, second_ms, use_end) == IF use_end THEN second_ms ELSE st + second_ms

MaxRows == 2

CsvHeaderRows ==
    { << <<"S", "t", "a", "r", "t">>, <<"E", "n", "d">> >>,
      << <<"S", "t", "a", "r", "t">>, <<"D", "u", "r", "a", "t", "i", "o", "n">> >>,
      << <<"S", "t", "a", "r", "t">>, <<"E", "n", "d">>, <<"D", "u", "r", "a", "t", "i", "o", "n">> >>,
      << <<"V", "e", "r", "s", "e">>, <<" ", "B", "e", "g", "i", "n">>, <<"L", "e", "n", "g", "t", "h">> >>,
      << <<"a">>, <<"b">> >> }

CsvDataRows ==
    { << <<"1", "0">>, <<"5">> >>,
      << <<"1", "0">>, <<"2", "0">>, <<"5">> >>,
      << <<"1", "0">>, <<>>, <<"5">> >>,
      << <<>>, <<"1", "0">>, <<"5">> >>,
      << <<>>, <<" ">>, <<>> >>,
      << >>,
      << <<" ", "0", ":", "0", "5", " ">>, <<"0", ":", "2", "0">> >>,
      << <<"1", "0">> >>,
      << <<"x">>, <<"1">> >>,
      << <<"3">>, <<"1", ":", "2", ":", "3", ":", "4">> >>,
      << <<"-", "5">>, <<"2", "0">> >>,
      << <<"1", "0", "0">>, <<"2", "0", "0">> >> }

CsvTotals == {0, 15000, 60000}

CsvFiles ==
    LET data == UNION {[1..k -> CsvDataRows] : k \in 0..MaxRows}
    IN  data \cup {<<h>> \o d : h \in CsvHeaderRows, d \in data}

NoRow == [kind |-> "none"]

InitCsv ==
    /\ c_rows \in CsvFiles
    /\ c_total \in CsvTotals
    /\ c_idx = <<>>
    /\ c_r = 0
    /\ c_loc = NoRow
    /\ c_cuts = <<>>
    /\ c_pc = "header"
    /\ IdleTime /\ IdleGrid /\ IdleHeader /\ IdleExcel /\ IdleMain

\* Lines 238-252: the header is detected and the loop starts at start_row.
CsvHeader ==
    /\ c_pc = "header"
    /\ c_idx' = csv_header(c_rows)
    /\ c_r' = csv_header(c_rows).start_row
    /\ c_pc' = "loop"
    /\ UNCHANGED <<c_rows, c_total, c_loc, c_cuts, tvars, gvars, hvars, xvars, mvars>>

\* One iteration of the loop of lines 254-288 on the row at c_r.
CsvRow ==
    /\ c_pc = "loop"
    /\ c_r <= Len(c_rows)
    /\ LET r   == c_rows[c_r]
           row == [i \in 1..Len(r) |-> Strip(r[i])]
           res == resolve_row(row, c_idx)
           st0 == parse_time(res.start_s)
           sec == parse_time(res.second)
           en0 == row_end(st0.ms, sec.ms, res.use_end)
           st  == Clamp(st0.ms, c_total)
           en  == Clamp(en0, c_total)
       IN  IF row = <<>> \/ \A i \in 1..Len(row) : row[i] = <<>>
           THEN /\ c_loc' = [kind |-> "skipped", row |-> c_r]
                /\ c_r' = c_r + 1
                /\ UNCHANGED <<c_cuts, c_pc>>
           ELSE IF ~res.ok \/ ~st0.ok \/ ~sec.ok
           THEN /\ c_loc' = [kind |-> "raised", row |-> c_r]
                /\ c_pc' = "raised"
                /\ UNCHANGED <<c_cuts, c_r>>
           ELSE /\ c_loc' = [kind |-> IF en > st THEN "cut" ELSE "dropped", row |-> c_r,
                             positional |-> res.positional, start_s |-> res.start_s,
                             second |-> res.second, use_end |-> res.use_end,
                             st_parsed |-> st0.ms, en_unclamped |-> en0,
                             st |-> st, en |-> en]
                /\ c_cuts' = IF en > st THEN Append(c_cuts, <<st, en>>) ELSE c_cuts
                /\ c_r' = c_r + 1
                /\ UNCHANGED c_pc
    /\ UNCHANGED <<c_rows, c_total, c_idx, tvars, gvars, hvars, xvars, mvars>>

CsvReturn ==
    /\ c_pc = "loop"
    /\ c_r > Len(c_rows)
    /\ c_pc' = "returned"
    /\ UNCHANGED <<c_rows, c_total, c_idx, c_r, c_loc, c_cuts, tvars, gvars, hvars, xvars, mvars>>

NextCsv == CsvHeader \/ CsvRow \/ CsvReturn

SpecCsv == InitCsv /\ [][NextCsv]_vars

-----------------------------------------------------------------------------
(* load_timestamps_excel *)

\* Header and label cells are None or text; the cells of the time columns
\* may be of any kind.
IsBlankCell(cell) == cell.kind = "none" \/ (cell.kind = "text" /\ Strip(cell.text) = <<>>)

IsHeaderRow(row) == row # <<>> /\ \E i \in 1..Len(row) : ~IsBlankCell(row[i])

\* The index in rows of the row the loop of lines 166-169 stops at, or NoIdx.
header_pos(rows) ==
    IF \E i \in 1..Len(rows) : IsHeaderRow(rows[i])
    THEN CHOOSE i \in 1..Len(rows) : IsHeaderRow(rows[i]) /\ \A j \in 1..(i - 1) : ~IsHeaderRow(rows[j])
    ELSE NoIdx

RolesResolved(roles) == roles.idx_label # NoIdx /\ roles.idx_begin # NoIdx /\ roles.idx_end # NoIdx

CellAt(row, idx) == IF idx <= Len(row) THEN row[idx] ELSE NoneCell

\* One data row, lines 191-208: skipped, raised (a time that does not
\* parse), or a segment.
excel_row(row, roles, total_ms) ==
    IF row = <<>> THEN [kind |-> "skip"]
    ELSE TheOne({
        IF IsBlankCell(label_cell) THEN [kind |-> "skip"]
        ELSE IF start_cell.kind = "none" \/ end_cell.kind = "none" THEN [kind |-> "skip"]
        ELSE TheOne({
            IF ~st0.ok \/ ~en0.ok THEN [kind |-> "raise"]
            ELSE TheOne({
                IF c[2] <= c[1] THEN [kind |-> "skip"]
                ELSE [kind |-> "seg",
                      seg  |-> [label |-> Strip(label_cell.text), start_ms |-> c[1], end_ms |-> c[2]]]
                : c \in {clamp_segment(st0.ms, en0.ms, total_ms)}})
            : st0 \in {parse_excel_time(start_cell)}, en0 \in {parse_excel_time(end_cell)}})
        : label_cell \in {CellAt(row, roles.idx_label)},
          start_cell \in {CellAt(row, roles.idx_begin)},
          end_cell   \in {CellAt(row, roles.idx_end)}})

\* The loop of lines 190-208 over the rows after the header.
RECURSIVE sheet_segments(_, _, _, _)
sheet_segments(rows, roles, total_ms, segments) ==
    IF rows = <<>> THEN [ok |-> TRUE, segments |-> segments]
    ELSE TheOne({IF r.kind = "raise" THEN [ok |-> FALSE, segments |-> <<>>]
                 ELSE TheOne({sheet_segments(rest, roles, total_ms, next)
                              : rest \in {Tail(rows)},
                                next \in {IF r.kind = "seg" THEN Append(segments, r.seg) ELSE segments}})
                 : r \in {excel_row(Head(rows), roles, total_ms)}})

\* segments.sort(key=lambda seg: seg.start_ms): a stable sort
RECURSIVE sort_by_start(_)
sort_by_start(segments) ==
    IF segments = <<>> THEN <<>>
    ELSE TheOne({LET x == segments[Len(segments)]
                     k == Cardinality({i \in 1..Len(front) : front[i].start_ms <= x.start_ms})
                 IN  SubSeq(front, 1, k) \o <<x>> \o SubSeq(front, k + 1, Len(front))
                 : front \in {sort_by_start(SubSeq(segments, 1, Len(segments) - 1))}})

\* chapters[title] = segments on a dict kept in insertion order
dict_set(chapters, title, segments) ==
    IF \E i \in 1..Len(chapters) : chapters[i].title = title
    THEN [i \in 1..Len(chapters) |->
            IF chapters[i].title = title THEN [title |-> title, segments |-> segments]
            ELSE chapters[i]]
    ELSE Append(chapters, [title |-> title, segments |-> segments])

\* What one iteration of the loop over the worksheets does with a sheet.
sheet_outcome_skip_malformed(rows, total_ms) ==
    TheOne({
        IF h = NoIdx THEN [kind |-> "blank"]
        ELSE TheOne({
            IF ~RolesResolved(roles) THEN [kind |-> "blank"]
            ELSE TheOne({
                  IF ~segs.ok THEN [kind |-> "bad_time"]
                  ELSE IF segs.segments # <<>>
                  THEN [kind |-> "chapter", segments |-> sort_by_start(segs.segments)]
                  ELSE [kind |-> "empty"]
                  : segs \in {sheet_segments(SubSeq(rows, h + 1, Len(rows)), roles, total_ms, <<>>)}})
            : roles \in {excel_roles(rows[h])}})
        : h \in {header_pos(rows)}})

sheet_outcome_keep_empty(rows, total_ms) ==
    TheOne({
        IF h = NoIdx THEN [kind |-> "blank"]
        ELSE TheOne({
            IF ~RolesResolved(roles) THEN [kind |-> "missing_column"]
            ELSE TheOne({
                  IF ~segs.ok THEN [kind |-> "bad_time"]
                  ELSE [kind |-> "chapter", segments |-> sort_by_start(segs.segments)]
                  : segs \in {sheet_segments(SubSeq(rows, h + 1, Len(rows)), roles, total_ms, <<>>)}})
            : roles \in {excel_roles(rows[h])}})
        : h \in {header_pos(rows)}})

sheet_outcome(rows, total_ms) ==
    TheOne({
        IF h = NoIdx THEN [kind |-> "blank"]
        ELSE TheOne({
            IF ~RolesResolved(roles) THEN [kind |-> "missing_column"]
            ELSE TheOne({
                  IF ~segs.ok THEN [kind |-> "bad_time"]
                  ELSE IF segs.segments # <<>>
                  THEN [kind |-> "chapter", segments |-> sort_by_start(segs.segments)]
                  ELSE [kind |-> "empty"]
                  : segs \in {sheet_segments(SubSeq(rows, h + 1, Len(rows)), roles, total_ms, <<>>)}})
            : roles \in {excel_roles(rows[h])}})
        : h \in {header_pos(rows)}})

MaxWbSheets == 2

SheetBlank ==
    <<<<NoneCell, NoneCell>>,
       <<>>,
       <<TextCell(<<" ">>), NoneCell>>>>

SheetGood ==
    <<<<NoneCell, NoneCell, NoneCell>>,
       <<TextCell(<<"C", "h", "a", "p", "t", "e", "r", " ", "S", "l", "o", "k", "a">>), TextCell(<<"B", "e", "g", "i", "n", "n", "i", "n", "g">>), TextCell(<<"E", "n", "d", "i", "n", "g">>)>>,
       <<TextCell(<<"1", ".", "2">>), TextCell(<<"1", ".", "3", "0">>), TextCell(<<"2", ".", "0">>)>>,
       <<TextCell(<<"1", ".", "1">>), TextCell(<<"0", ".", "3", "0">>), TextCell(<<"1", ".", "3", "0">>)>>>>

SheetNoSegments ==
    <<<<TextCell(<<"C", "h", "a", "p", "t", "e", "r", " ", "S", "l", "o", "k", "a">>), TextCell(<<"B", "e", "g", "i", "n", "n", "i", "n", "g">>), TextCell(<<"E", "n", "d", "i", "n", "g">>)>>,
       <<TextCell(<<" ">>), TextCell(<<"1">>), TextCell(<<"2">>)>>,
       <<TextCell(<<"v">>), NoneCell, TextCell(<<"2">>)>>,
       <<TextCell(<<"v">>), TextCell(<<"2">>), TextCell(<<"1">>)>>,
       <<>>,
       <<TextCell(<<"v">>)>>>>

SheetNoEnding ==
    <<<<TextCell(<<"N", "a", "m", "e">>), TextCell(<<"S", "t", "a", "r", "t">>), TextCell(<<"S", "t", "o", "p">>)>>,
       <<TextCell(<<"v", "1">>), TextCell(<<"0">>), TextCell(<<"1">>)>>>>

SheetLongHeaders ==
    <<<<TextCell(<<"V", "e", "r", "s", "e">>), TextCell(<<"S", "t", "a", "r", "t", " ", "T", "i", "m", "e">>), TextCell(<<"E", "n", "d">>)>>,
       <<TextCell(<<"v", "1">>), TextCell(<<"0">>), TextCell(<<"1">>)>>>>

SheetBadTime ==
    <<<<TextCell(<<"C", "h", "a", "p", "t", "e", "r", " ", "S", "l", "o", "k", "a">>), TextCell(<<"B", "e", "g", "i", "n", "n", "i", "n", "g">>), TextCell(<<"E", "n", "d", "i", "n", "g">>)>>,
       <<TextCell(<<"v", "1">>), TextCell(<<"a", "b", "c">>), TextCell(<<"2">>)>>>>

SheetNative ==
    <<<<NoneCell, TextCell(<<"V", "e", "r", "s", "e">>), TextCell(<<"B", "e", "g", "i", "n">>), TextCell(<<"E", "n", "d", " ">>)>>,
       <<NoneCell, TextCell(<<"v", "1">>), DeltaCell(5000), TimeCell("time", 0, 0, 20, 0)>>,
       <<NoneCell, TextCell(<<" ", "v", "0", " ">>), TextCell(<<"0", ":", "0", "1">>), TextCell(<<"0", ":", "0", "4", ".", "5">>)>>>>

SheetLate ==
    <<<<TextCell(<<"C", "h", "a", "p", "t", "e", "r", " ", "S", "l", "o", "k", "a">>), TextCell(<<"B", "e", "g", "i", "n", "n", "i", "n", "g">>), TextCell(<<"E", "n", "d", "i", "n", "g">>)>>,
       <<TextCell(<<"L">>), TextCell(<<"5", ".", "0">>), TextCell(<<"6", ".", "0">>)>>>>

SheetBodies == {SheetBlank, SheetGood, SheetNoSegments, SheetNoEnding, SheetLongHeaders, SheetBadTime, SheetNative, SheetLate}

\* Sheet titles are distinct within a workbook.
SheetTitle(i) == <<"C", "h">> \o IntToStr(i)

Workbooks ==
    UNION {{[i \in 1..k |-> [title |-> SheetTitle(i), rows |-> b[i]]] : b \in [1..k -> SheetBodies]}
           : k \in 0..MaxWbSheets}

ExcelTotals == {0, 100000, 400000}

InitExcel ==
    /\ x_wb \in Workbooks
    /\ x_total \in ExcelTotals
    /\ x_s = 1
    /\ x_chapters = <<>>
    /\ x_pc = "loop"
    /\ IdleTime /\ IdleGrid /\ IdleHeader /\ IdleCsv /\ IdleMain

\* One iteration of the loop of lines 163-212 on the sheet at x_s.
ExcelSheet ==
    /\ x_pc = "loop"
    /\ x_s <= Len(x_wb)
    /\ \E out \in {sheet_outcome(x_wb[x_s].rows, x_total)} :
           IF out.kind \in {"missing_column", "bad_time"}
           THEN /\ x_pc' = "raised"
                /\ UNCHANGED <<x_s, x_chapters>>
           ELSE /\ x_chapters' = IF out.kind = "chapter"
                                 THEN dict_set(x_chapters, x_wb[x_s].title, out.segments)
                                 ELSE x_chapters
                /\ x_s' = x_s + 1
                /\ UNCHANGED x_pc
    /\ UNCHANGED <<x_wb, x_total, tvars, gvars, hvars, cvars, mvars>>

\* Lines 214-217: an empty dict raises, any other is returned.
load_end(chapters) == IF chapters = <<>> THEN "raised" ELSE "returned"

ExcelFinish ==
    /\ x_pc = "loop"
    /\ x_s > Len(x_wb)
    /\ x_pc' = load_end(x_chapters)
    /\ UNCHANGED <<x_wb, x_total, x_s, x_chapters, tvars, gvars, hvars, cvars, mvars>>

NextExcel == ExcelSheet \/ ExcelFinish

SpecExcel == InitExcel /\ [][NextExcel]_vars

-----------------------------------------------------------------------------
(* sanitize_filename and the naming of directories and files in sheet mode *)

StripSet(s, chars) ==
    LET keep == {i \in 1..Len(s) : s[i] \notin chars}
    IN  IF keep = {} THEN <<>>
        ELSE SubSeq(s, CHOOSE i \in keep : \A j \in keep : i <= j,
                       CHOOSE i \in keep : \A j \in keep : i >= j)

sanitize_filename(name, fallback) ==
    LET base    == Strip(name)
        kept    == SelectSeq(base, LAMBDA ch : IsAlnum(ch) \/ ch \in {"_", "-", "."} \/ IsSpace(ch))
        allowed == [i \in 1..Len(kept) |-> IF IsSpace(kept[i]) THEN "_" ELSE kept[i]]
        cleaned == StripSet(allowed, {".", "_"})
    IN  IF cleaned # <<>> THEN cleaned ELSE fallback

\* used_dirnames.get(base_dirname, 0)
used_get(used, base) == IF base \in DOMAIN used THEN used[base] ELSE 0

\* used_dirnames[base_dirname] = n
used_set(used, base, n) == [b \in DOMAIN used \cup {base} |-> IF b = base THEN n ELSE used[b]]

\* dirname of lines 330-334
dir_name(base_dirname, count) ==
    IF count # 0 THEN base_dirname \o <<"_">> \o IntToStr(count + 1) ELSE base_dirname

\* os.path.join(sheet_dir, fname), relative to args.output
join_path(dirname, fname) == dirname \o <<"/">> \o fname

\* f"{idx:02d}"
two_digits(idx) == IF idx < 10 THEN <<"0">> \o IntToStr(idx) ELSE IntToStr(idx)

\* The default of --prefix
Prefix == <<"V", "e", "r", "s", "e", "_">>

file_path_no_check(dirname, base_fname, suffix, fs) == join_path(dirname, base_fname \o <<".", "m", "p", "3">>)

\* The while loop of lines 346-349, entered with fpath = <base_fname>.mp3
\* and suffix = 2: fpath when os.path.exists(fpath) is first False.
RECURSIVE free_path(_, _, _, _)
free_path(dirname, base_fname, suffix, fs) ==
    LET fname == IF suffix = 1 THEN base_fname \o <<".", "m", "p", "3">>
                 ELSE base_fname \o <<"_">> \o IntToStr(suffix) \o <<".", "m", "p", "3">>
        fpath == join_path(dirname, fname)
    IN  IF fpath \in fs THEN free_path(dirname, base_fname, suffix + 1, fs) ELSE fpath

MaxSheets == 3

Titles == { <<"A">>, <<"A", ".">>, <<"A", "_", "2">>, <<"?", "!">> }

LabelLists ==
    { << <<"I", "n", "t", "r", "o">> >>,
      << <<"I", "n", "t", "r", "o">>, <<"I", "n", "t", "r", "o">> >>,
      << <<"I", "n", "t", "r", "o", "_", "2">>, <<"I", "n", "t", "r", "o", " ", "!">>, <<"!", "!">> >> }

\* The chapters load_timestamps_excel returns: distinct titles, each with at
\* least one segment.  Only the labels of the segments decide the names.
ChapterLists ==
    UNION {{[i \in 1..k |-> [title |-> t[i], labels |-> l[i]]] : t \in {u \in [1..k -> Titles] : \A i, j \in 1..k : u[i] = u[j] => i = j},
                                                            l \in [1..k -> LabelLists]}
           : k \in 1..MaxSheets}

\* Files left below the output directory by an earlier run.
OldFiles == { <<"A", "/", "I", "n", "t", "r", "o", ".", "m", "p", "3">>, <<"A", "/", "I", "n", "t", "r", "o", "_", "2", ".", "m", "p", "3">> }

OldDir == <<"A">>

InitMain ==
    /\ m_chapters \in ChapterLists
    /\ m_fs \in {old \cup (IF old = {} THEN {} ELSE {OldDir}) : old \in SUBSET OldFiles}
    /\ m_used = <<>>
    /\ m_c = 1
    /\ m_k = 0
    /\ m_dirs = <<>>
    /\ m_exports = <<>>
    /\ m_pc = "chapter"
    /\ IdleTime /\ IdleGrid /\ IdleHeader /\ IdleCsv /\ IdleExcel

\* Lines 329-338: the directory of the chapter at m_c is named and made.
MainChapter ==
    /\ m_pc = "chapter"
    /\ m_c <= Len(m_chapters)
    /\ LET base_dirname == sanitize_filename(m_chapters[m_c].title, <<"c", "h", "a", "p", "t", "e", "r">>)
           count        == used_get(m_used, base_dirname)
           dirname      == dir_name(base_dirname, count)
       IN  /\ m_used' = used_set(m_used, base_dirname, count + 1)
           /\ m_dirs' = Append(m_dirs, dirname)
           /\ m_fs' = m_fs \cup {dirname}
    /\ m_k' = 1
    /\ m_pc' = "segment"
    /\ UNCHANGED <<m_chapters, m_c, m_exports, tvars, gvars, hvars, cvars, xvars>>

\* Lines 341-353: the segment at m_k is given a path and exported to it.
MainSegment ==
    /\ m_pc = "segment"
    /\ m_k <= Len(m_chapters[m_c].labels)
    /\ LET fallback_name == Prefix \o two_digits(m_k)
           base_fname    == sanitize_filename(m_chapters[m_c].labels[m_k], fallback_name)
           fpath         == free_path(m_dirs[m_c], base_fname, 1, m_fs)
       IN  /\ m_fs' = m_fs \cup {fpath}
           /\ m_exports' = Append(m_exports, fpath)
    /\ m_k' = m_k + 1
    /\ UNCHANGED <<m_chapters, m_used, m_c, m_dirs, m_pc, tvars, gvars, hvars, cvars, xvars>>

\* The segments of the chapter are exhausted.
MainChapterEnd ==
    /\ m_pc = "segment"
    /\ m_k > Len(m_chapters[m_c].labels)
    /\ m_c' = m_c + 1
    /\ m_pc' = "chapter"
    /\ UNCHANGED <<m_chapters, m_fs, m_used, m_k, m_dirs, m_exports, tvars, gvars, hvars, cvars, xvars>>

MainEnd ==
    /\ m_pc = "chapter"
    /\ m_c > Len(m_chapters)
    /\ m_pc' = "done"
    /\ UNCHANGED <<m_chapters, m_fs, m_used, m_c, m_k, m_dirs, m_exports, tvars, gvars, hvars, cvars, xvars>>

NextMain == MainChapter \/ MainSegment \/ MainChapterEnd \/ MainEnd

SpecMain == InitMain /\ [][NextMain]_vars

-----------------------------------------------------------------------------
(* The three producers of ranges together *)

InitCuts == InitGrid \/ InitCsv \/ InitExcel

NextCuts == NextGrid \/ NextCsv \/ NextExcel

SpecCuts == InitCuts /\ [][NextCuts]_vars

-----------------------------------------------------------------------------
(* C1 *)

InTrack(st, en, total_ms) == 0 <= st /\ st < en /\ en <= total_ms

\* C1: every range grid_cuts, load_timestamps_csv and load_timestamps_excel
\* emit satisfies 0 <= start_ms < end_ms <= total_ms.
C1_RangesWithinTrack ==
    /\ \A i \in 1..Len(g_cuts) : InTrack(g_cuts[i][1], g_cuts[i][2], g_total)
    /\ \A i \in 1..Len(c_cuts) : InTrack(c_cuts[i][1], c_cuts[i][2], c_total)
    /\ \A i \in 1..Len(x_chapters) : \A k \in 1..Len(x_chapters[i].segments) :
           InTrack(x_chapters[i].segments[k].start_ms, x_chapters[i].segments[k].end_ms, x_total)

\* A workbook was loaded in which a segment ending after the track was cut
\* back to total_ms and a row lying wholly after the track was dropped.
C1_Witness ==
    /\ x_pc = "returned"
    /\ x_total = 100000
    /\ \E i \in 1..Len(x_wb) : x_wb[i].rows = SheetLate
    /\ \E i \in 1..Len(x_chapters) : \E k \in 1..Len(x_chapters[i].segments) :
           /\ x_chapters[i].segments[k].start_ms = 90000
           /\ x_chapters[i].segments[k].end_ms = x_total

-----------------------------------------------------------------------------
(* C2 *)

StrippedRow(i) == [k \in 1..Len(c_rows[i]) |-> Strip(c_rows[i][k])]

\* The row was resolved through the header roles: the start column and the
\* end or the duration column are populated.
HeaderResolved(row) ==
    HasCell(row, c_idx.idx_start) /\ (HasCell(row, c_idx.idx_end) \/ HasCell(row, c_idx.idx_dur))

RowProcessed == c_loc.kind \in {"cut", "dropped"}

LastCutIs(st, en) ==
    c_loc.kind = "cut" => c_cuts[Len(c_cuts)] = <<Clamp(st, c_total), Clamp(en, c_total)>>

\* C2 as stated: a row resolved positionally has its second populated cell
\* read as an absolute end time, end = parse_time(second).
C2_SecondIsEnd ==
    RowProcessed /\ ~HeaderResolved(StrippedRow(c_loc.row)) =>
        LET cells == Populated(StrippedRow(c_loc.row))
        IN  /\ c_loc.en_unclamped = parse_time(cells[2]).ms
            /\ LastCutIs(parse_time(cells[1]).ms, parse_time(cells[2]).ms)

\* C2, amended: a row resolved positionally has its second populated cell
\* read as a duration, end = parse_time(first) + parse_time(second).
C2_SecondIsDuration ==
    RowProcessed /\ ~HeaderResolved(StrippedRow(c_loc.row)) =>
        LET cells == Populated(StrippedRow(c_loc.row))
            st    == parse_time(cells[1]).ms
        IN  /\ c_loc.en_unclamped = st + parse_time(cells[2]).ms
            /\ LastCutIs(st, st + parse_time(cells[2]).ms)

\* A file without header whose row 10,5 gave the cut (10000, 15000).
C2_Witness ==
    /\ c_pc = "returned"
    /\ c_idx.start_row = 1
    /\ c_rows = << << <<"1", "0">>, <<"5">> >> >>
    /\ c_cuts = << <<10000, 15000>> >>

-----------------------------------------------------------------------------
(* C5 *)

ClaimedClamp(v) == IF v < 0 THEN 0 ELSE IF v > g_total THEN g_total ELSE v

ClaimedRange(i) == <<ClaimedClamp(g_start + i * g_length), ClaimedClamp(g_start + (i + 1) * g_length)>>

EmptyOrInverted(i) == ClaimedRange(i)[2] <= ClaimedRange(i)[1]

\* The smallest ordinal below count whose clamped range is empty or
\* inverted, or count if there is none.
FirstEmptyOrdinal ==
    IF \E i \in 0..(g_count - 1) : EmptyOrInverted(i)
    THEN CHOOSE i \in 0..(g_count - 1) :
             EmptyOrInverted(i) /\ \A j \in 0..(i - 1) : ~EmptyOrInverted(j)
    ELSE Max(g_count, 0)

\* C5: grid_cuts returns the clamped ranges of the ordinals below the first
\* one whose clamped range is empty or inverted, in order, and nothing of a
\* later ordinal; (0,3,1000,2500) gives [(0,1000),(1000,2000),(2000,2500)]
\* and (3000,5,1000,2500) gives the empty list.
C5_GridStopsAtFirstEmpty ==
    g_pc = "returned" =>
        /\ g_cuts = [i \in 1..FirstEmptyOrdinal |-> ClaimedRange(i - 1)]
        /\ (<<g_start, g_count, g_length, g_total>> = <<0, 3, 1000, 2500>>
                => g_cuts = << <<0, 1000>>, <<1000, 2000>>, <<2000, 2500>> >>)
        /\ (<<g_start, g_count, g_length, g_total>> = <<3000, 5, 1000, 2500>> => g_cuts = <<>>)

\* The grid stopped at ordinal 0 although a later ordinal has a non-empty
\* clamped range.
C5_Witness ==
    /\ g_pc = "returned"
    /\ g_cuts = <<>>
    /\ \E j \in 1..(g_count - 1) : ~EmptyOrInverted(j)

-----------------------------------------------------------------------------
(* C3 *)

\* C3 as stated: the directory names given to the chapters of one run are
\* pairwise distinct.
C3_DirnamesDistinct ==
    \A i, j \in 1..Len(m_dirs) : m_dirs[i] = m_dirs[j] => i = j

-----------------------------------------------------------------------------
(* C4 *)

Candidate(dirname, stem, n) ==
    dirname \o <<"/">> \o stem \o (IF n = 1 THEN <<>> ELSE <<"_">> \o IntToStr(n)) \o <<".", "m", "p", "3">>

\* The first of <stem>.mp3, <stem>_2.mp3, <stem>_3.mp3, ... that is not in fs.
FirstFree(dirname, stem, fs) ==
    Candidate(dirname, stem,
              CHOOSE n \in 1..(Cardinality(fs) + 1) :
                  /\ Candidate(dirname, stem, n) \notin fs
                  /\ \A k \in 1..(n - 1) : Candidate(dirname, stem, k) \in fs)

ExportsDistinct == \A i, j \in 1..Len(m_exports) : m_exports[i] = m_exports[j] => i = j

\* What the run found below the output directory when it started.
FoundAtStart == m_fs \ (SeqRange(m_exports) \cup SeqRange(m_dirs))

IntroTwice ==
    m_pc = "done" /\ FoundAtStart = {}
    /\ m_chapters = << [title |-> <<"A">>, labels |-> << <<"I", "n", "t", "r", "o">>, <<"I", "n", "t", "r", "o">> >>] >>
        => m_exports = << <<"A", "/", "I", "n", "t", "r", "o", ".", "m", "p", "3">>, <<"A", "/", "I", "n", "t", "r", "o", "_", "2", ".", "m", "p", "3">> >>

\* An export: the path it writes is the first free candidate of the
\* segment's stem, so it did not exist before.
ExportIsFresh ==
    Len(m_exports') > Len(m_exports) =>
        LET fpath == m_exports'[Len(m_exports')]
            stem  == sanitize_filename(m_chapters[m_c].labels[m_k], Prefix \o two_digits(m_k))
        IN  /\ fpath \notin m_fs
            /\ fpath = FirstFree(m_dirs[m_c], stem, m_fs)
            /\ m_fs' = m_fs \cup {fpath}

\* C4: every segment is exported to the first of <stem>.mp3, <stem>_2.mp3,
\* ... that does not exist yet, so the exported paths are pairwise distinct,
\* no existing file is overwritten, and Intro, Intro in an empty directory
\* give Intro.mp3 and Intro_2.mp3.
C4_FreshPaths == [](ExportsDistinct /\ IntroTwice) /\ [][ExportIsFresh]_vars

\* Two segments labelled Intro met Intro.mp3 and Intro_2.mp3 of an earlier
\* run and were written to Intro_3.mp3 and Intro_4.mp3.
C4_Witness ==
    /\ m_pc = "done"
    /\ OldFiles \subseteq FoundAtStart
    /\ \E i \in 1..(Len(m_exports) - 1) :
           /\ m_exports[i] = <<"A", "/", "I", "n", "t", "r", "o", "_", "3", ".", "m", "p", "3">>
           /\ m_exports[i + 1] = <<"A", "/", "I", "n", "t", "r", "o", "_", "4", ".", "m", "p", "3">>

-----------------------------------------------------------------------------
(* C6 *)

HasHeader(i) == \E r \in 1..Len(x_wb[i].rows) : IsHeaderRow(x_wb[i].rows[r])

HeaderOf(i) ==
    x_wb[i].rows[CHOOSE r \in 1..Len(x_wb[i].rows) :
                     /\ IsHeaderRow(x_wb[i].rows[r])
                     /\ \A q \in 1..(r - 1) : ~IsHeaderRow(x_wb[i].rows[q])]

\* The sheet has a non-blank header row in which the label, the start or
\* the end column is not resolved.
Malformed(i) == HasHeader(i) /\ ~RolesResolved(excel_roles(HeaderOf(i)))

\* C6: a sheet whose header row lacks a resolved label, start or end column
\* fails the whole load as soon as the loop reaches it, whatever the other
\* sheets hold: the load never gets past such a sheet and never returns.
C6_MalformedSheetAborts ==
    /\ x_pc = "returned" => \A i \in 1..Len(x_wb) : ~Malformed(i)
    /\ x_pc = "loop" => \A i \in 1..(x_s - 1) : ~Malformed(i)
    /\ x_pc = "raised" /\ x_s <= Len(x_wb) /\ Malformed(x_s) => \A i \in 1..(x_s - 1) : ~Malformed(i)

\* The load raised at a malformed second sheet after the first sheet had
\* given a chapter.
C6_Witness ==
    /\ x_pc = "raised"
    /\ x_s = 2
    /\ Len(x_wb) = 2
    /\ Malformed(2)
    /\ Len(x_chapters) = 1

-----------------------------------------------------------------------------
(* C7 *)

DataRows(i) ==
    {r \in 1..Len(x_wb[i].rows) :
        \E h \in 1..(r - 1) : IsHeaderRow(x_wb[i].rows[h])}

\* The sheet yields at least one valid segment.
Yields(i) ==
    /\ HasHeader(i)
    /\ ~Malformed(i)
    /\ \E r \in DataRows(i) : excel_row(x_wb[i].rows[r], excel_roles(HeaderOf(i)), x_total).kind = "seg"

YieldingSheets == SelectSeq([i \in 1..Len(x_wb) |-> i], Yields)

\* C7: the mapping returned has exactly one entry per sheet that yielded a
\* valid segment, none of them empty; a well-formed sheet without valid
\* segments has no entry; and the load does not return an empty mapping.
C7_OneEntryPerYieldingSheet ==
    x_pc = "returned" =>
        /\ [k \in 1..Len(x_chapters) |-> x_chapters[k].title]
               = [k \in 1..Len(YieldingSheets) |-> x_wb[YieldingSheets[k]].title]
        /\ \A k \in 1..Len(x_chapters) : x_chapters[k].segments # <<>>
        /\ x_chapters # <<>>

\* A load returned although one of its sheets, well-formed, yielded nothing.
C7_Witness ==
    /\ x_pc = "returned"
    /\ \E i \in 1..Len(x_wb) : HasHeader(i) /\ ~Malformed(i) /\ ~Yields(i)

-----------------------------------------------------------------------------
(* C8 *)

NormalizedRow == [i \in 1..Len(h_row) |-> normalize_header(h_row[i])]

\* The leftmost of the columns, or NoIdx when there is none.
Leftmost(columns) ==
    IF columns = {} THEN NoIdx ELSE CHOOSE i \in columns : \A j \in columns : i <= j

PrefixColumn(keywords) ==
    Leftmost({i \in 1..Len(h_row) :
                 \E kw \in keywords : NormalizedRow[i] = kw \/ StartsWith(NormalizedRow[i], kw)})

ExactColumn(keywords) == Leftmost({i \in 1..Len(h_row) : NormalizedRow[i] \in keywords})

ClaimedLabel == { <<"c", "h", "a", "p", "t", "e", "r", "l", "o", "k", "a">>, <<"v", "e", "r", "s", "e">>, <<"s", "l", "o", "k", "a">>, <<"n", "a", "m", "e">>, <<"l", "a", "b", "e", "l">> }

ClaimedStart == { <<"s", "t", "a", "r", "t">>, <<"b", "e", "g", "i", "n">>, <<"b", "e", "g", "i", "n", "n", "i", "n", "g">> }

ClaimedEnd == { <<"e", "n", "d">>, <<"s", "t", "o", "p">>, <<"f", "i", "n", "i", "s", "h">>, <<"e", "n", "d", "i", "n", "g">> }

ClaimedDuration == { <<"d", "u", "r", "a", "t", "i", "o", "n">>, <<"l", "e", "n", "g", "t", "h">>, <<"d", "u", "r">> }

CsvRolesByPrefix ==
    /\ h_csv.idx_start = PrefixColumn(ClaimedStart)
    /\ h_csv.idx_end = PrefixColumn(ClaimedEnd)
    /\ h_csv.idx_dur = PrefixColumn(ClaimedDuration)

\* C8 as stated: in both loaders a role goes to the leftmost header cell
\* whose normalized form equals or starts with one of the role's keywords.
C8_PrefixInBothLoaders ==
    h_pc = "done" =>
        /\ CsvRolesByPrefix
        /\ h_xl.idx_label = PrefixColumn(ClaimedLabel)
        /\ h_xl.idx_begin = PrefixColumn(ClaimedStart)
        /\ h_xl.idx_end = PrefixColumn(ClaimedEnd)

\* C8, amended: load_timestamps_csv gives start, end and duration to the
\* leftmost header cell whose normalized form equals or starts with one of
\* the role's keywords; load_timestamps_excel gives label, start and end to
\* the leftmost header cell whose normalized form equals one of
\* {chaptersloka, verse, sloka, name, label}, {start, begin, beginning},
\* {end, finish, ending}.
C8_PrefixInCsvExactInExcel ==
    h_pc = "done" =>
        /\ CsvRolesByPrefix
        /\ h_xl.idx_label = ExactColumn({ <<"c", "h", "a", "p", "t", "e", "r", "s", "l", "o", "k", "a">>, <<"v", "e", "r", "s", "e">>, <<"s", "l", "o", "k", "a">>, <<"n", "a", "m", "e">>, <<"l", "a", "b", "e", "l">> })
        /\ h_xl.idx_begin = ExactColumn({ <<"s", "t", "a", "r", "t">>, <<"b", "e", "g", "i", "n">>, <<"b", "e", "g", "i", "n", "n", "i", "n", "g">> })
        /\ h_xl.idx_end = ExactColumn({ <<"e", "n", "d">>, <<"f", "i", "n", "i", "s", "h">>, <<"e", "n", "d", "i", "n", "g">> })

\* A header row whose second cell, " start time", is the start column of
\* the CSV loader and no column of the Excel loader.
C8_Witness ==
    /\ h_pc = "done"
    /\ Len(h_row) = 2
    /\ h_row[2] = <<" ", "s", "t", "a", "r", "t", " ", "t", "i", "m", "e">>
    /\ h_csv.idx_start = 2
    /\ h_xl.idx_begin = NoIdx

-----------------------------------------------------------------------------
(* C9 *)

\* C9: a row resolved through the header roles ends at parse_time(end cell)
\* when its end column is populated, and otherwise at start +
\* parse_time(duration cell); header Start,Duration with row 10,5 and
\* total_ms >= 15000 yields (10000, 15000).
C9_EndBeforeDuration ==
    /\ RowProcessed /\ HeaderResolved(StrippedRow(c_loc.row)) =>
           LET row == StrippedRow(c_loc.row)
               st  == parse_time(row[c_idx.idx_start]).ms
               en  == IF HasCell(row, c_idx.idx_end)
                      THEN parse_time(row[c_idx.idx_end]).ms
                      ELSE st + parse_time(row[c_idx.idx_dur]).ms
           IN  c_loc.en_unclamped = en /\ LastCutIs(st, en)
    /\ c_pc = "returned" /\ c_total >= 15000
       /\ c_rows = << << <<"S", "t", "a", "r", "t">>, <<"D", "u", "r", "a", "t", "i", "o", "n">> >>, << <<"1", "0">>, <<"5">> >> >>
           => c_cuts = << <<10000, 15000>> >>

\* Under header Start,End,Duration the row 10,20,5, with both columns
\* populated, gave the cut (10000, 20000).
C9_Witness ==
    /\ c_loc.kind = "cut"
    /\ c_rows[1] = << <<"S", "t", "a", "r", "t">>, <<"E", "n", "d">>, <<"D", "u", "r", "a", "t", "i", "o", "n">> >>
    /\ c_rows[c_loc.row] = << <<"1", "0">>, <<"2", "0">>, <<"5">> >>
    /\ c_cuts[Len(c_cuts)] = <<10000, 20000>>

-----------------------------------------------------------------------------
(* C10 *)

ExcelTextParsed == t_pc = "done" /\ t_fn = "parse_excel_time" /\ t_value.kind = "text"

\* M.D: digits, a dot, digits or nothing
IsMinutesDotDigits(s) ==
    /\ Contains(s, ".")
    /\ Split1(s, ".")[1] # <<>>
    /\ IsDigits(Split1(s, ".")[1])
    /\ IsDigits(Split1(s, ".")[2])

SecondsAsStated(d) ==
    IF d = <<>> THEN 0
    ELSE IF Len(d) = 1 THEN 10 * DigitVal(d[1])
    ELSE Min(59, DigitsVal(SubSeq(d, 1, 2)))

SecondsCapped(d) ==
    IF d = <<>> THEN 0
    ELSE IF Len(d) = 1 THEN Min(59, 10 * DigitVal(d[1]))
    ELSE Min(59, DigitsVal(SubSeq(d, 1, 2)))

MinutesOf(s) == DigitsVal(Split1(s, ".")[1])

DigitsAfterDot(s) == Split1(s, ".")[2]

DotShorthandAsStated ==
    ExcelTextParsed /\ IsMinutesDotDigits(t_value.text) =>
        t_res = Value((MinutesOf(t_value.text) * 60 + SecondsAsStated(DigitsAfterDot(t_value.text))) * 1000)

DotShorthandCapped ==
    ExcelTextParsed /\ IsMinutesDotDigits(t_value.text) =>
        t_res = Value((MinutesOf(t_value.text) * 60 + SecondsCapped(DigitsAfterDot(t_value.text))) * 1000)

DotExamples ==
    /\ ExcelTextParsed /\ t_value.text = <<"3", ".", "4", "5">> => t_res = Value(225000)
    /\ ExcelTextParsed /\ t_value.text = <<"3", ".", "5">> => t_res = Value(230000)

\* A text of digits alone is a number of minutes.
PlainIsMinutes ==
    ExcelTextParsed /\ t_value.text # <<>> /\ IsDigits(t_value.text) =>
        t_res = Value(DigitsVal(t_value.text) * 60 * 1000)

\* C10 as stated: M.D gives (M*60 + s)*1000 with s = 0 for an empty D,
\* s = 10*D for a one-digit D and s = min(59, first two digits) otherwise.
C10_OneDigitTimesTen == DotShorthandAsStated /\ DotExamples /\ PlainIsMinutes

\* C10, amended: as stated, with s = min(59, 10*D) for a one-digit D.
C10_OneDigitTimesTenCapped == DotShorthandCapped /\ DotExamples /\ PlainIsMinutes

\* "3.7" was parsed to 3 min 59 s.
C10_Witness ==
    /\ ExcelTextParsed
    /\ t_value.text = <<"3", ".", "7">>
    /\ t_res = Value(239000)

-----------------------------------------------------------------------------
(* C11: the grammar of parse_time *)

TimeParsed == t_pc = "done" /\ t_fn = "parse_time"

ColonsOf(s) == {i \in 1..Len(s) : s[i] = ":"}

ColonCount(s) == Cardinality(ColonsOf(s))

\* The position of the k-th colon of s; 0 before the first field and
\* Len(s) + 1 after the last.
ColonAt(s, k) ==
    IF k = 0 THEN 0
    ELSE IF k > ColonCount(s) THEN Len(s) + 1
    ELSE CHOOSE i \in ColonsOf(s) : Cardinality({j \in ColonsOf(s) : j <= i}) = k

\* The k-th of the fields the colons separate.
FieldOf(s, k) == SubSeq(s, ColonAt(s, k - 1) + 1, ColonAt(s, k) - 1)

\* h and m: a non-negative integer in digits.
IsWholeField(f) == f # <<>> /\ IsDigits(f)

DotsOf(f) == {i \in 1..Len(f) : f[i] = "."}

\* s: digits with at most one dot among them and at least one digit.
IsSecondsField(f) ==
    /\ \A i \in 1..Len(f) : IsDigit(f[i]) \/ f[i] = "."
    /\ Cardinality(DotsOf(f)) <= 1
    /\ \E i \in 1..Len(f) : IsDigit(f[i])

\* h:m:s, m:s or s with every field a number.
IsTimeText(s) ==
    /\ ColonCount(s) <= 2
    /\ \A k \in 1..ColonCount(s) : IsWholeField(FieldOf(s, k))
    /\ IsSecondsField(FieldOf(s, ColonCount(s) + 1))

\* s * 1000, to the nearest millisecond
SecondsFieldMs(f) ==
    IF DotsOf(f) = {} THEN DigitsVal(f) * 1000
    ELSE LET d == CHOOSE i \in DotsOf(f) : TRUE
         IN  DigitsVal(SubSeq(f, 1, d - 1)) * 1000 + FracMs(SubSeq(f, d + 1, Len(f)))

HoursOf(s) == IF ColonCount(s) = 2 THEN DigitsVal(FieldOf(s, 1)) ELSE 0

MinutesFieldOf(s) == IF ColonCount(s) >= 1 THEN DigitsVal(FieldOf(s, ColonCount(s))) ELSE 0

\* ((h*60 + m)*60 + s) * 1000
GrammarMs(s) ==
    (HoursOf(s) * 60 + MinutesFieldOf(s)) * 60 * 1000 + SecondsFieldMs(FieldOf(s, ColonCount(s) + 1))

GrammarValue == TimeParsed /\ IsTimeText(t_value.text) => t_res = Value(GrammarMs(t_value.text))

ManyColonsFail == TimeParsed /\ ColonCount(t_value.text) >= 3 => ~t_res.ok

GrammarExamples ==
    /\ TimeParsed /\ t_value.text = <<"9", "0">> => t_res = Value(90000)
    /\ TimeParsed /\ t_value.text = <<"0", "1", ":", "3", "0">> => t_res = Value(90000)
    /\ TimeParsed /\ t_value.text = <<"0", "1", ":", "0", "1", ":", "3", "0">> => t_res = Value(3690000)
    /\ TimeParsed /\ t_value.text = <<"1", ":", "2", ":", "3", ":", "4">> => ~t_res.ok

\* C11: parse_time returns ((h*60 + m)*60 + s)*1000 ms for a text with no
\* colon (h = m = 0), one colon (m:s) or two colons (h:m:s), and fails for
\* every text with three or more colons; "90" and "01:30" give 90000,
\* "01:01:30" gives 3690000 and "1:2:3:4" fails.
C11_TimeGrammar == GrammarValue /\ ManyColonsFail /\ GrammarExamples

\* "01:01:30" was parsed to 3690000 ms.
C11_Witness ==
    /\ TimeParsed
    /\ ColonCount(t_value.text) = 2
    /\ IsTimeText(t_value.text)
    /\ t_value.text = <<"0", "1", ":", "0", "1", ":", "3", "0">>
    /\ t_res = Value(3690000)

\* A text with three colons went through parse_time and failed.
C11_WitnessManyColons ==
    /\ TimeParsed
    /\ ColonCount(t_value.text) = 3
    /\ Len(t_value.text) <= MaxLen
    /\ ~t_res.ok

====
